---- MODULE Spec2Model ----
(***************************************************************************)
(* Customer management: the customer routes of the repository.             *)
(*                                                                         *)
(* The repository holds two versions of the customer API:                  *)
(*   "jwt"       the owner-scoped router (src/frontend/assets/js/app.js    *)
(*               lines 298-575), mounted by the server of                  *)
(*               src/unnamed/part_001.  Its Customer model (findById,      *)
(*               findAllByUserId, create, update, delete) is not among the *)
(*               sources; it is modelled from the specification.           *)
(*   "sequelize" the router of src/backend/routes/customers.js over the    *)
(*               Sequelize model of src/backend/models/Customer.js, which  *)
(*               has no notion of an owner.                                *)
(* The variable app says which of the two servers is running.              *)
(*                                                                         *)
(* The module holds, besides the requests answered one at a time (Spec,    *)
(* SpecJwt, SpecSeq, SpecAuth), the requests of two connections            *)
(* interleaved at the awaits of their handlers (SpecConc), the export      *)
(* routes of the Sequelize router with the files they write (SpecExport),  *)
(* one call of exportToPDF run iteration by iteration (SpecPdf), and the   *)
(* register and login routes of the owner-scoped server (SpecLogin).       *)
(*                                                                         *)
(* Strings are sequences of one-character strings, so that the regular     *)
(* expressions of the validators are computed character by character.      *)
(***************************************************************************)
EXTENDS Naturals, Sequences, FiniteSets

VARIABLES
    app,        \* which server is running: "jwt" or "sequelize"
    customers,  \* the customers table: a set of rows
    nextId,     \* the table's AUTO_INCREMENT counter
    now,        \* the clock that stamps date_created
    createdBy,  \* history: the user whose request created each id
    prev,       \* history: the table as it was before the last request
    req,        \* history: the last request
    resp,       \* the response to the last request
    inflight,   \* the requests being handled concurrently, one per connection
    clock,      \* Date.now() of the server process
    disk,       \* the files of the exports directory
    exports,    \* the export requests in progress, one per connection
    pdf,        \* a call of exportToPDF in progress
    users,      \* the users table of the owner-scoped server
    login       \* the last request to the auth routes and its response

\* What the handling of one request at a time leaves alone.
rest == <<inflight, clock, disk, exports, pdf, users, login>>

vars == <<app, customers, nextId, now, createdBy, prev, req, resp, rest>>

(***************************************************************************)
(* Bounds of the model.                                                    *)
(***************************************************************************)
\* The number of rows ever inserted (ids run from 1 to MaxId).
MaxId == 2

\* The authenticated users that send requests (req.user.id).
Users == {1, 2}

\* The ids a request may name: those ever assigned and one never assigned.
Ids == 1..(MaxId + 1)

(***************************************************************************)
(* Characters and sample strings.                                          *)
(***************************************************************************)
Digits == {"0", "1", "2", "3", "4", "5", "6", "7", "8", "9"}

Whitespace == {" "}

Letters == {"a", "b", "c", "d", "e", "f", "g", "h", "i", "j", "k", "l", "m",
            "n", "o", "p", "q", "r", "s", "t", "u", "v", "w", "x", "y", "z",
            "J", "L", "M"}

\* A field absent from the request body (JavaScript undefined).
Undefined == <<"undefined">>

Empty == << >>

Jo == <<"J", "o">>
J1 == <<"J">>
Li == <<"L", "i">>
JoAtXCo == <<"j", "@", "x", ".", "c", "o">>
KoAtXCo == <<"k", "@", "x", ".", "c", "o">>
JAtXC == <<"j", "@", "x", ".", "c">>
JxCo == <<"j", "x", ".", "c", "o">>
Phone51 == <<"5", "-", "1">>
Phone5x == <<"5", "x">>
Main1 == <<"1", " ", "M">>
Blank == <<" ">>

(***************************************************************************)
(* Field bundles: the body of a create or update request.                  *)
(***************************************************************************)
FieldNames == {"first_name", "last_name", "email", "phone", "address"}

ValidBundle ==
    [first_name |-> Jo, last_name |-> Li, email |-> JoAtXCo,
     phone |-> Phone51, address |-> Main1]

\* The valid bundle with one field replaced by another sample value.
Bundles ==
    {ValidBundle}
    \cup {[ValidBundle EXCEPT !.first_name = v] : v \in {Undefined, J1}}
    \cup {[ValidBundle EXCEPT !.last_name = v] : v \in {Empty}}
    \cup {[ValidBundle EXCEPT !.email = v] : v \in {Empty, KoAtXCo, JAtXC, JxCo}}
    \cup {[ValidBundle EXCEPT !.phone = v] : v \in {Undefined, Phone5x, Blank}}
    \cup {[ValidBundle EXCEPT !.address = v] : v \in {Empty, Blank}}

(***************************************************************************)
(* Validation of the owner-scoped router (app.js).                         *)
(***************************************************************************)
\* JavaScript's !v for a string or undefined.
Falsy(v) == v = Undefined \/ v = Empty

\* /^[^\s@]+@[^\s@]+\.[^\s@]+$/.test(s)
EmailRegexTest(s) ==
    \E i \in 1..Len(s), j \in 1..Len(s) :
        /\ 1 < i /\ i + 1 < j /\ j < Len(s)
        /\ s[i] = "@" /\ s[j] = "."
        /\ \A k \in (1..Len(s)) \ {i, j} : s[k] \notin Whitespace /\ s[k] # "@"

\* /^[\d\s\-\+\(\)]+$/.test(s)
PhoneRegexTest(s) ==
    /\ Len(s) > 0
    /\ \A k \in 1..Len(s) : s[k] \in Digits \cup Whitespace \cup {"-", "+", "(", ")"}

NoError == "none"

\* PostValidation without the check of the required fields.
PostValidationNoRequired(b) ==
    IF ~EmailRegexTest(b.email) THEN "Invalid email format"
    ELSE IF ~PhoneRegexTest(b.phone) THEN "Invalid phone format"
    ELSE NoError

\* The checks of router.post('/') before the model is called: the message of
\* the first check that fails, or NoError.
PostValidation(b) ==
    IF Falsy(b.first_name) \/ Falsy(b.last_name) \/ Falsy(b.email)
       \/ Falsy(b.phone) \/ Falsy(b.address)
    THEN "All fields are required"
    ELSE IF ~EmailRegexTest(b.email) THEN "Invalid email format"
    ELSE IF ~PhoneRegexTest(b.phone) THEN "Invalid phone format"
    ELSE NoError

\* The checks of router.put('/:id') before the model is called.
PutValidation(b) ==
    IF Falsy(b.first_name) \/ Falsy(b.last_name) \/ Falsy(b.email)
       \/ Falsy(b.phone) \/ Falsy(b.address)
    THEN "All fields are required"
    ELSE IF ~EmailRegexTest(b.email) THEN "Invalid email format"
    ELSE NoError

(***************************************************************************)
(* Validation of the Sequelize model (models/Customer.js).                 *)
(***************************************************************************)
NameMin == 2
NameMax == 100

\* notEmpty: the string is not made of whitespace only.
NotEmpty(s) == \E k \in 1..Len(s) : s[k] \notin Whitespace

\* len: [2, 100]
LenOk(s) == NameMin <= Len(s) /\ Len(s) <= NameMax

\* Every part of s between dots is non-empty.
DotPartsNonEmpty(s) ==
    /\ Len(s) > 0
    /\ s[1] # "." /\ s[Len(s)] # "."
    /\ \A k \in 1..(Len(s) - 1) : ~(s[k] = "." /\ s[k + 1] = ".")

\* isEmail (validator.js, default options) on the characters of the model:
\* one "@"; a local part of dot-separated atoms; a domain of at least two
\* labels that neither start nor end with "-", the last one (the top-level
\* domain) of two or more letters.
IsEmail(s) ==
    \E i \in 1..Len(s) :
        /\ s[i] = "@"
        /\ \A k \in (1..Len(s)) \ {i} : s[k] # "@"
        /\ LET user == SubSeq(s, 1, i - 1)
               domain == SubSeq(s, i + 1, Len(s))
           IN  /\ DotPartsNonEmpty(user)
               /\ \A k \in 1..Len(user) :
                      user[k] \in Letters \cup Digits \cup {".", "-", "+"}
               /\ DotPartsNonEmpty(domain)
               /\ \A k \in 1..Len(domain) :
                      domain[k] \in Letters \cup Digits \cup {".", "-"}
               /\ domain[1] # "-" /\ domain[Len(domain)] # "-"
               /\ \A k \in 1..(Len(domain) - 1) :
                      ~(domain[k] = "-" /\ domain[k + 1] = ".")
                      /\ ~(domain[k] = "." /\ domain[k + 1] = "-")
               /\ \E d \in 1..(Len(domain) - 2) :
                      /\ domain[d] = "."
                      /\ \A k \in (d + 1)..Len(domain) : domain[k] \in Letters

\* The messages of the validators that fail for one attribute; an attribute
\* that is null or undefined fails allowNull: false and nothing else runs.
AttributeErrors(f, v) ==
    IF v = Undefined THEN {"notNull Violation"}
    ELSE CASE f = "first_name" ->
                  {m \in {"First name is required"} : ~NotEmpty(v)}
                  \cup {m \in {"First name must be between 2 and 100 characters"} : ~LenOk(v)}
           [] f = "last_name" ->
                  {m \in {"Last name is required"} : ~NotEmpty(v)}
                  \cup {m \in {"Last name must be between 2 and 100 characters"} : ~LenOk(v)}
           [] f = "email" ->
                  {m \in {"Must be a valid email address"} : ~IsEmail(v)}
                  \cup {m \in {"Email is required"} : ~NotEmpty(v)}
           [] f = "phone" ->
                  {m \in {"Phone number is required"} : ~NotEmpty(v)}
                  \cup {m \in {"Phone number format is invalid"} : ~PhoneRegexTest(v)}
           [] f = "address" ->
                  {m \in {"Address is required"} : ~NotEmpty(v)}

\* The errors of a SequelizeValidationError for the attributes in fields.
ValidationErrors(b, fields) ==
    UNION {AttributeErrors(f, b[f]) : f \in fields}

(***************************************************************************)
(* The customers table.                                                    *)
(***************************************************************************)
\* user_id of a row of the table that has no such column.
NoUser == 0

\* NewRow with first_name and last_name stored in each other's column.
NewRowNamesSwapped(id, b, userId, t) ==
    [id |-> id, first_name |-> b.last_name, last_name |-> b.first_name,
     email |-> b.email, phone |-> b.phone, address |-> b.address,
     user_id |-> userId, date_created |-> t]

\* A new row: the store assigns id and date_created.
NewRow(id, b, userId, t) ==
    [id |-> id, first_name |-> b.first_name, last_name |-> b.last_name,
     email |-> b.email, phone |-> b.phone, address |-> b.address,
     user_id |-> userId, date_created |-> t]

\* SetFields that also stamps the row anew, as a column declared
\* ON UPDATE CURRENT_TIMESTAMP would.
SetFieldsAndTimestamp(c, b, fields) ==
    [k \in DOMAIN c |-> IF k \in fields THEN b[k]
                        ELSE IF k = "date_created" THEN c[k] + 1 ELSE c[k]]

\* SetFields cut short: only the two names have been written.
SetFieldsNamesOnly(c, b, fields) ==
    [k \in DOMAIN c |-> IF k \in fields \cap {"first_name", "last_name"} THEN b[k]
                        ELSE c[k]]

\* The row c with the attributes in fields replaced by those of b.
SetFields(c, b, fields) ==
    [k \in DOMAIN c |-> IF k \in fields THEN b[k] ELSE c[k]]

\* EmailTaken for a column declared without unique: true.
EmailTakenNotUnique(S, email, exceptId) == FALSE

\* The UNIQUE constraint on email: another row of S holds the email.
EmailTaken(S, email, exceptId) ==
    \E c \in S : c.email = email /\ c.id # exceptId

\* The orders in which a query ORDER BY date_created DESC may return the rows
\* of S: rows with equal timestamps come in any order.
NewestFirst(S) ==
    {s \in [1..Cardinality(S) -> S] :
        /\ \A i, j \in 1..Cardinality(S) : i # j => s[i] # s[j]
        /\ \A i, j \in 1..Cardinality(S) :
               i < j => s[i].date_created >= s[j].date_created}

(***************************************************************************)
(* Requests and responses.                                                 *)
(***************************************************************************)
NoBody == [f \in FieldNames |-> Undefined]

Request(op, u, id, b) == [op |-> op, user |-> u, id |-> id, body |-> b]

Response(status, msg, errors, data) ==
    [status |-> status, msg |-> msg, errors |-> errors, data |-> data]

\* The state after a request that leaves the table as it is.
Reject(r, answer) ==
    /\ req' = r
    /\ resp' = answer
    /\ prev' = customers
    /\ UNCHANGED <<app, customers, nextId, now, createdBy, rest>>

\* The state after a request that changes the table to S.
Commit(r, answer, S) ==
    /\ req' = r
    /\ resp' = answer
    /\ prev' = customers
    /\ customers' = S
    /\ UNCHANGED <<app, nextId, now, createdBy, rest>>

\* The state after a request that inserts row c, created at time t.
Insert(r, answer, c, t) ==
    /\ req' = r
    /\ resp' = answer
    /\ prev' = customers
    /\ customers' = customers \cup {c}
    /\ nextId' = nextId + 1
    /\ now' = t
    /\ createdBy' = [createdBy EXCEPT ![c.id] = r.user]
    /\ UNCHANGED <<app, rest>>

\* No request is being answered: the server waits for the next one.
Idle == req.op = "none"

\* The connections that carry concurrent requests.
Connections == {1, 2}

\* A connection with no request in flight.
NoFlight ==
    [pc |-> "idle", req |-> Request("none", NoUser, 0, NoBody), overlap |-> FALSE,
     old |-> << >>, inst |-> << >>, resp |-> Response(0, "", {}, << >>)]

\* The number of values Date.now() takes while the model runs.
MaxTick == 2

\* The files exportToCSV and exportToPDF may name: customers_<Date.now()>.csv
\* and customers_<Date.now()>.pdf in the exports directory.
Paths == {<<"customers_", t, "." \o ext>> : t \in 1..MaxTick, ext \in {"csv", "pdf"}}

\* What a path that names no file holds (ENOENT), and a file of some content.
NoFile == [exists |-> FALSE, content |-> << >>]

File(content) == [exists |-> TRUE, content |-> content]

\* A connection with no export in progress.
NoExport ==
    [pc |-> "idle", kind |-> "none", records |-> << >>, path |-> << >>,
     wrote |-> << >>, sent |-> NoFile]

\* No call of exportToPDF in progress.
NoCall == [pc |-> "idle", customers |-> << >>, i |-> 0, page |-> 0, y |-> 0,
           ops |-> << >>]

\* What a field of a request body is when the request does not carry it.
NoAuthBody ==
    [first_name |-> Undefined, last_name |-> Undefined, email |-> Undefined,
     password |-> Undefined, passwordConfirm |-> Undefined]

\* No request to the auth routes yet.
NoLogin ==
    [op |-> "none", body |-> NoAuthBody,
     resp |-> [status |-> 0, msg |-> "", token |-> << >>, user |-> << >>]]

\* The servers after start, before any request.
InitServer ==
    /\ app \in {"jwt", "sequelize"}
    /\ customers = {}
    /\ nextId = 1
    /\ now = 1
    /\ createdBy = [i \in Ids |-> NoUser]
    /\ prev = {}
    /\ req = Request("none", NoUser, 0, NoBody)
    /\ resp = Response(0, "", {}, << >>)
    /\ inflight = [p \in Connections |-> NoFlight]
    /\ clock = 1
    /\ disk = [f \in Paths |-> NoFile]
    /\ exports = [p \in Connections |-> NoExport]
    /\ users = {}
    /\ login = NoLogin

Init == InitServer /\ pdf = NoCall

(***************************************************************************)
(* The Customer model of the owner-scoped server (models/Customer.js of    *)
(* that server), as the specification describes it.  A method that throws  *)
(* gives the message of its error; the table is then left as it was.       *)
(***************************************************************************)
Outcome(error, table, row) == [error |-> error, table |-> table, row |-> row]

\* Customer.findById(id, userId): the row with that id owned by userId.
findById(S, id, userId) == {c \in S : c.id = id /\ c.user_id = userId}

\* Customer.findAllByUserId(userId): the rows owned by userId, newest first.
findAllByUserId(S, userId) == NewestFirst({c \in S : c.user_id = userId})

\* Customer.create(data): a new row for data.user_id with a fresh id and the
\* current timestamp, unless the email is taken.
CustomerCreate(S, b, userId, id, t) ==
    IF EmailTaken(S, b.email, 0)
    THEN Outcome("Customer email already exists", S, << >>)
    ELSE Outcome(NoError, S \cup {NewRow(id, b, userId, t)},
                 <<NewRow(id, b, userId, t)>>)

\* Customer.update(id, data, userId): replaces the five fields of the row
\* with that id owned by userId.
CustomerUpdate(S, id, b, userId) ==
    IF findById(S, id, userId) = {}
    THEN Outcome("Customer not found or unauthorized", S, << >>)
    ELSE IF EmailTaken(S, b.email, id)
    THEN Outcome("Customer email already exists", S, << >>)
    ELSE LET old == CHOOSE c \in findById(S, id, userId) : TRUE
             new == SetFields(old, b, FieldNames)
         IN  Outcome(NoError, (S \ {old}) \cup {new}, <<new>>)

\* Customer.delete(id, userId): removes the row with that id owned by userId.
CustomerDelete(S, id, userId) ==
    IF findById(S, id, userId) = {}
    THEN Outcome("Customer not found or unauthorized", S, << >>)
    ELSE Outcome(NoError, S \ findById(S, id, userId), << >>)

(***************************************************************************)
(* The owner-scoped router (app.js, lines 298-575).                        *)
(***************************************************************************)
\* The catch block of router.post('/').
JwtPostError(msg) ==
    IF msg = "Customer email already exists"
    THEN Response(409, msg, {}, << >>)
    ELSE Response(500, "Failed to create customer", {}, << >>)

\* router.post('/')
JwtPost(u, b) ==
    /\ app = "jwt"
    /\ Idle
    /\ nextId <= MaxId
    /\ LET r == Request("post", u, 0, b)
           err == PostValidation(b)
       IN  IF err # NoError
           THEN Reject(r, Response(400, err, {}, << >>))
           ELSE \E t \in {now, now + 1} :
                    LET out == CustomerCreate(customers, b, u, nextId, t)
                    IN  IF out.error # NoError
                        THEN Reject(r, JwtPostError(out.error))
                        ELSE Insert(r, Response(201, "Customer created successfully",
                                                {}, out.row), out.row[1], t)

\* The answers router.get('/') may give user u: one for each order in which
\* the query may return rows with equal timestamps.
JwtGetAllAnswers(S, u) ==
    {Response(200, "", {}, s) : s \in findAllByUserId(S, u)}

\* router.get('/')
JwtGetAll(u) ==
    /\ app = "jwt"
    /\ Idle
    /\ \E answer \in JwtGetAllAnswers(customers, u) :
           Reject(Request("list", u, 0, NoBody), answer)

\* JwtGetOneAnswer with the lookup by id alone, req.user.id left out.
JwtGetOneAnswerAnyOwner(S, u, id) ==
    IF {c \in S : c.id = id} = {}
    THEN Response(404, "Customer not found", {}, << >>)
    ELSE Response(200, "", {}, <<CHOOSE c \in S : c.id = id>>)

\* The answer of router.get('/:id') for user u.
JwtGetOneAnswer(S, u, id) ==
    IF findById(S, id, u) = {}
    THEN Response(404, "Customer not found", {}, << >>)
    ELSE Response(200, "", {}, <<CHOOSE c \in findById(S, id, u) : TRUE>>)

\* router.get('/:id')
JwtGetOne(u, id) ==
    /\ app = "jwt"
    /\ Idle
    /\ Reject(Request("get", u, id, NoBody), JwtGetOneAnswer(customers, u, id))

\* The catch block of router.put('/:id').
JwtPutError(msg) ==
    IF msg = "Customer not found or unauthorized"
    THEN Response(404, msg, {}, << >>)
    ELSE IF msg = "Customer email already exists"
    THEN Response(409, msg, {}, << >>)
    ELSE Response(500, "Failed to update customer", {}, << >>)

\* router.put('/:id')
JwtPut(u, id, b) ==
    /\ app = "jwt"
    /\ Idle
    /\ LET r == Request("put", u, id, b)
           err == PutValidation(b)
           out == CustomerUpdate(customers, id, b, u)
       IN  IF err # NoError
           THEN Reject(r, Response(400, err, {}, << >>))
           ELSE IF out.error # NoError
           THEN Reject(r, JwtPutError(out.error))
           ELSE Commit(r, Response(200, "Customer updated successfully", {}, out.row),
                       out.table)

\* The catch block of router.delete('/:id').
JwtDeleteError(msg) ==
    IF msg = "Customer not found or unauthorized"
    THEN Response(404, msg, {}, << >>)
    ELSE Response(500, "Failed to delete customer", {}, << >>)

\* The outcome of router.delete('/:id') for user u: its answer and the table
\* it leaves.
JwtDeleteOutcome(S, u, id) ==
    LET out == CustomerDelete(S, id, u)
    IN  IF out.error # NoError
        THEN [answer |-> JwtDeleteError(out.error), table |-> S]
        ELSE [answer |-> Response(200, "Customer deleted successfully", {}, << >>),
              table |-> out.table]

\* router.delete('/:id')
JwtDelete(u, id) ==
    /\ app = "jwt"
    /\ Idle
    /\ LET out == JwtDeleteOutcome(customers, u, id)
       IN  Commit(Request("delete", u, id, NoBody), out.answer, out.table)

(***************************************************************************)
(* The Sequelize router (backend/routes/customers.js) over the Sequelize   *)
(* model (backend/models/Customer.js).  No route reads the caller: u is    *)
(* recorded in the history only.                                           *)
(***************************************************************************)
\* Customer.findByPk(id)
findByPk(S, id) == {c \in S : c.id = id}

\* Customer.findAll({order: [['date_created', 'DESC']]})
findAll(S) == NewestFirst(S)

\* router.post('/')
SeqPost(u, b) ==
    /\ app = "sequelize"
    /\ Idle
    /\ nextId <= MaxId
    /\ LET r == Request("post", u, 0, b)
           errs == ValidationErrors(b, FieldNames)
       IN  IF errs # {}
           THEN Reject(r, Response(400, "Validation error", errs, << >>))
           ELSE IF EmailTaken(customers, b.email, 0)
           THEN Reject(r, Response(400, "Email already exists", {}, << >>))
           ELSE \E t \in {now, now + 1} :
                    LET c == NewRow(nextId, b, NoUser, t)
                    IN  Insert(r, Response(201, "Customer created successfully",
                                           {}, <<c>>), c, t)

\* The answers router.get('/') may give.
SeqGetAllAnswers(S) == {Response(200, "", {}, s) : s \in findAll(S)}

\* router.get('/')
SeqGetAll(u) ==
    /\ app = "sequelize"
    /\ Idle
    /\ \E answer \in SeqGetAllAnswers(customers) :
           Reject(Request("list", u, 0, NoBody), answer)

\* The answer of router.get('/:id').
SeqGetOneAnswer(S, id) ==
    IF findByPk(S, id) = {}
    THEN Response(404, "Customer not found", {}, << >>)
    ELSE Response(200, "", {}, <<CHOOSE c \in findByPk(S, id) : TRUE>>)

\* router.get('/:id')
SeqGetOne(u, id) ==
    /\ app = "sequelize"
    /\ Idle
    /\ Reject(Request("get", u, id, NoBody), SeqGetOneAnswer(customers, id))

\* The attributes customer.update(values) sets and validates.  Sequelize 6
\* drops the values that are undefined; earlier versions keep them, and they
\* then fail allowNull: false.  The version is not fixed by the sources.
UpdateFields(b, dropUndefined) ==
    IF dropUndefined THEN {f \in FieldNames : b[f] # Undefined} ELSE FieldNames

\* router.put('/:id')
SeqPut(u, id, b) ==
    /\ app = "sequelize"
    /\ Idle
    /\ LET r == Request("put", u, id, b)
       IN  IF findByPk(customers, id) = {}
           THEN Reject(r, Response(404, "Customer not found", {}, << >>))
           ELSE \E dropUndefined \in BOOLEAN :
                LET fields == UpdateFields(b, dropUndefined)
                    errs == ValidationErrors(b, fields)
                    old == CHOOSE c \in findByPk(customers, id) : TRUE
                    new == SetFields(old, b, fields)
                IN  IF errs # {}
                    THEN Reject(r, Response(400, "Validation error", errs, << >>))
                    ELSE IF EmailTaken(customers, new.email, id)
                    THEN Reject(r, Response(400, "Email already exists", {}, << >>))
                    ELSE Commit(r, Response(200, "Customer updated successfully",
                                            {}, <<new>>),
                                (customers \ {old}) \cup {new})

\* The outcome of router.delete('/:id'): its answer and the table it leaves.
SeqDeleteOutcome(S, id) ==
    IF findByPk(S, id) = {}
    THEN [answer |-> Response(404, "Customer not found", {}, << >>), table |-> S]
    ELSE [answer |-> Response(200, "Customer deleted successfully", {}, << >>),
          table |-> S \ findByPk(S, id)]

\* router.delete('/:id')
SeqDelete(u, id) ==
    /\ app = "sequelize"
    /\ Idle
    /\ LET out == SeqDeleteOutcome(customers, id)
       IN  Commit(Request("delete", u, id, NoBody), out.answer, out.table)

(***************************************************************************)
(* The specification.                                                      *)
(***************************************************************************)
\* The response has been sent; the server waits for the next request
\* (requests are answered one at a time).
Listen ==
    /\ ~Idle
    /\ req' = Request("none", NoUser, 0, NoBody)
    /\ resp' = Response(0, "", {}, << >>)
    /\ prev' = customers
    /\ UNCHANGED <<app, customers, nextId, now, createdBy, rest>>

Next ==
    \/ Listen
    \/ \E u \in Users :
        \/ \E b \in Bundles : JwtPost(u, b)
        \/ JwtGetAll(u)
        \/ \E id \in Ids : JwtGetOne(u, id)
        \/ \E id \in Ids, b \in Bundles : JwtPut(u, id, b)
        \/ \E id \in Ids : JwtDelete(u, id)
        \/ \E b \in Bundles : SeqPost(u, b)
        \/ SeqGetAll(u)
        \/ \E id \in Ids : SeqGetOne(u, id)
        \/ \E id \in Ids, b \in Bundles : SeqPut(u, id, b)
        \/ \E id \in Ids : SeqDelete(u, id)

Spec == Init /\ [][Next]_vars

\* The owner-scoped server alone.
InitJwt == Init /\ app = "jwt"

NextJwt ==
    \/ Listen
    \/ \E u \in Users :
        \/ \E b \in Bundles : JwtPost(u, b)
        \/ JwtGetAll(u)
        \/ \E id \in Ids : JwtGetOne(u, id)
        \/ \E id \in Ids, b \in Bundles : JwtPut(u, id, b)
        \/ \E id \in Ids : JwtDelete(u, id)

SpecJwt == InitJwt /\ [][NextJwt]_vars

\* The Sequelize server alone.
InitSeq == Init /\ app = "sequelize"

NextSeq ==
    \/ Listen
    \/ \E u \in Users :
        \/ \E b \in Bundles : SeqPost(u, b)
        \/ SeqGetAll(u)
        \/ \E id \in Ids : SeqGetOne(u, id)
        \/ \E id \in Ids, b \in Bundles : SeqPut(u, id, b)
        \/ \E id \in Ids : SeqDelete(u, id)

SpecSeq == InitSeq /\ [][NextSeq]_vars

(***************************************************************************)
(* Vocabulary of the properties.                                           *)
(***************************************************************************)
\* The error kind of the specification that a response stands for.
ErrorKind(r) ==
    CASE r.status = 409 -> "DuplicateEmailError"
      [] r.status = 400 /\ r.msg = "Email already exists" -> "DuplicateEmailError"
      [] r.status = 400 /\ r.msg # "Email already exists" -> "ValidationError"
      [] r.status = 404 -> "NotFoundError"
      [] r.status = 500 -> "PersistenceError"
      [] OTHER -> "none"

\* The rows of table S created by user u.
CreatedBy(S, u) == {c \in S : createdBy[c.id] = u}

\* The rows a response carries.
Rows(r) == {r.data[k] : k \in 1..Len(r.data)}

\* The answer the running server gives user u for get(id) on table S.
GetOneAnswer(S, u, id) ==
    IF app = "jwt" THEN JwtGetOneAnswer(S, u, id) ELSE SeqGetOneAnswer(S, id)

\* The answers the running server may give user u for list on table S.
GetAllAnswers(S, u) ==
    IF app = "jwt" THEN JwtGetAllAnswers(S, u) ELSE SeqGetAllAnswers(S)

\* The answer the running server gives user u for delete(id) on table S.
DeleteAnswer(S, u, id) ==
    IF app = "jwt" THEN JwtDeleteOutcome(S, u, id).answer
    ELSE SeqDeleteOutcome(S, id).answer

\* The running server's validation of a create lets the bundle through.
PassesCreateValidation(b) ==
    IF app = "jwt" THEN PostValidation(b) = NoError
    ELSE ValidationErrors(b, FieldNames) = {}

\* The user-supplied fields of row c are those of bundle b.
SameFields(c, b) == \A f \in FieldNames : c[f] = b[f]

(***************************************************************************)
(* C1.  A record created by user A is never returned by get or list        *)
(* invoked by another user B, is never changed or removed by an update or  *)
(* delete invoked by B, and get, update and delete by B on its id report   *)
(* NotFoundError.                                                          *)
(***************************************************************************)
C1_OwnerIsolation ==
    ~Idle =>
        /\ req.op \in {"get", "list"} =>
               \A c \in Rows(resp) : createdBy[c.id] = req.user
        /\ req.op \in {"put", "delete"} =>
               \A c \in prev : createdBy[c.id] # req.user => c \in customers
        /\ (/\ req.op \in {"get", "put", "delete"}
            /\ \E c \in prev : c.id = req.id /\ createdBy[c.id] # req.user)
               => ErrorKind(resp) = "NotFoundError"

(***************************************************************************)
(* C2.  get gives the caller the same response whether the id does not     *)
(* exist or belongs to another owner: the response to get(owner, id) is    *)
(* the one the same request gets from the table with every record of the   *)
(* other owners removed.                                                   *)
(***************************************************************************)
C2_GetUniformNotFound ==
    (~Idle /\ req.op = "get") =>
        /\ resp = GetOneAnswer(CreatedBy(prev, req.user), req.user, req.id)
        /\ (\A c \in prev : c.id = req.id => createdBy[c.id] # req.user)
               => resp = Response(404, "Customer not found", {}, << >>)

\* A get was answered for an id that exists and belongs to another owner.
C2_Witness ==
    /\ ~Idle /\ req.op = "get"
    /\ \E c \in prev : c.id = req.id /\ createdBy[c.id] # req.user
    /\ resp.status = 404

(***************************************************************************)
(* C3.  A create that passes validation and whose email is the email of a  *)
(* record already in the store, whoever owns it, fails with                *)
(* DuplicateEmailError (not ValidationError, not PersistenceError) and     *)
(* leaves the store unchanged; afterwards list(owner) holds for every      *)
(* owner exactly the records that owner created (in the scenario: one for  *)
(* owner 1, none for owner 2).                                             *)
(***************************************************************************)
C3_DuplicateEmailOnCreate ==
    (/\ ~Idle /\ req.op = "post"
     /\ PassesCreateValidation(req.body)
     /\ \E c \in prev : c.email = req.body.email)
        => /\ ErrorKind(resp) = "DuplicateEmailError"
           /\ customers = prev
           /\ \A v \in Users : \A answer \in GetAllAnswers(customers, v) :
                  /\ Rows(answer) = CreatedBy(prev, v)
                  /\ Len(answer.data) = Cardinality(CreatedBy(prev, v))

(***************************************************************************)
(* C4.  No two records of the store have the same email; an update that    *)
(* gives a record the email of another existing record writes nothing and  *)
(* is answered DuplicateEmailError: always so when the caller created the  *)
(* record and the bundle is valid, and otherwise unless the update was     *)
(* refused before reaching the store, with ValidationError or              *)
(* NotFoundError.                                                          *)
(***************************************************************************)
C4_EmailUnique ==
    /\ \A c, d \in customers : c.email = d.email => c = d
    /\ (/\ ~Idle /\ req.op = "put"
        /\ \E c \in prev : c.id # req.id /\ c.email = req.body.email)
           => /\ customers = prev
              /\ ErrorKind(resp) \in
                     {"DuplicateEmailError", "ValidationError", "NotFoundError"}
              /\ (/\ \E c \in prev : c.id = req.id /\ createdBy[c.id] = req.user
                  /\ PutValidation(req.body) = NoError
                  /\ ValidationErrors(req.body, FieldNames) = {})
                     => ErrorKind(resp) = "DuplicateEmailError"

\* An update of an existing record was refused for the email of another one.
C4_Witness ==
    /\ ~Idle /\ req.op = "put"
    /\ \E c, d \in prev : c.id = req.id /\ d.id # req.id /\ d.email = req.body.email
    /\ ErrorKind(resp) = "DuplicateEmailError"

(***************************************************************************)
(* C5.  After a successful create, get by the same owner with the returned *)
(* id yields a record whose five user fields are the supplied ones and     *)
(* whose id and created_at are populated.                                  *)
(***************************************************************************)
C5_CreateThenGet ==
    (~Idle /\ req.op = "post" /\ resp.status = 201) =>
        LET got == GetOneAnswer(customers, req.user, resp.data[1].id)
        IN  /\ got.status = 200
            /\ Len(got.data) = 1
            /\ SameFields(got.data[1], req.body)
            /\ got.data[1].id = resp.data[1].id
            /\ got.data[1].id \in 1..MaxId
            /\ got.data[1].date_created \in 1..now

\* A create succeeded.
C5_Witness == ~Idle /\ req.op = "post" /\ resp.status = 201 /\ customers # prev

(***************************************************************************)
(* C6.  An update on an id that does not exist, or on an id owned by       *)
(* another caller, returns NotFoundError and leaves every record of the    *)
(* store unchanged.                                                        *)
(***************************************************************************)
C6_UpdateNotFound ==
    (/\ ~Idle /\ req.op = "put"
     /\ \A c \in prev : c.id = req.id => createdBy[c.id] # req.user)
        => /\ ErrorKind(resp) = "NotFoundError"
           /\ customers = prev

(***************************************************************************)
(* C7.  delete removes the row only if it exists and is owned by the       *)
(* caller, and no other row; after a delete that succeeded, the same       *)
(* delete by the same caller reports NotFoundError.                        *)
(***************************************************************************)
C7_DeleteOwnedOnly ==
    (~Idle /\ req.op = "delete") =>
        /\ customers \subseteq prev
        /\ \A c \in prev \ customers : c.id = req.id /\ createdBy[c.id] = req.user
        /\ resp.status = 200 =>
               /\ \E c \in prev \ customers : c.id = req.id
               /\ ErrorKind(DeleteAnswer(customers, req.user, req.id)) = "NotFoundError"

(***************************************************************************)
(* C8.  list(owner) returns exactly the records stored with that owner,    *)
(* each once, newest first, and an empty sequence (a success) when there   *)
(* are none.                                                               *)
(***************************************************************************)
C8_ListOwned ==
    (~Idle /\ req.op = "list") =>
        /\ resp.status = 200
        /\ Rows(resp) = CreatedBy(prev, req.user)
        /\ Len(resp.data) = Cardinality(CreatedBy(prev, req.user))
        /\ \A i, j \in 1..Len(resp.data) :
               i < j => resp.data[i].date_created >= resp.data[j].date_created

(***************************************************************************)
(* C9.  A create with any of the five fields missing or empty returns      *)
(* ValidationError and adds no record to the store.                        *)
(***************************************************************************)
C9_CreateRequiresFields ==
    (/\ ~Idle /\ req.op = "post"
     /\ \E f \in FieldNames : Falsy(req.body[f]))
        => /\ ErrorKind(resp) = "ValidationError"
           /\ customers = prev

\* A create with a missing field was refused while the store held a record.
C9_Witness ==
    /\ ~Idle /\ req.op = "post"
    /\ \E f \in FieldNames : req.body[f] = Undefined
    /\ ErrorKind(resp) = "ValidationError"
    /\ customers # {}

(***************************************************************************)
(* C10.  update applies the field validation of create: an update is       *)
(* answered ValidationError exactly when a create with the same bundle     *)
(* would be.                                                               *)
(***************************************************************************)
C10_UpdateValidatesLikeCreate ==
    (~Idle /\ req.op = "put") =>
        (ErrorKind(resp) = "ValidationError" <=> ~PassesCreateValidation(req.body))

(***************************************************************************)
(* C11.  After any create or update, every record of the store is valid:   *)
(* its five user fields are non-empty, its email matches the email         *)
(* pattern, and its phone holds only digits, spaces and - + ( ).           *)
(***************************************************************************)
C11_StoredRecordsValid ==
    \A c \in customers :
        /\ \A f \in FieldNames : ~Falsy(c[f])
        /\ EmailRegexTest(c.email)
        /\ PhoneRegexTest(c.phone)

(***************************************************************************)
(* Authentication.  A request whose credential fails authentication has no *)
(* req.user: its caller is NoUser.  The owner-scoped router runs           *)
(* authMiddleware (middleware/auth.js of that server, as the specification *)
(* and the notes of the router describe it) before every route; the        *)
(* Sequelize server mounts its router with no middleware, so there the     *)
(* route runs whatever the credential is.                                  *)
(***************************************************************************)
Operations == {"post", "list", "get", "put", "delete"}

\* authMiddleware on a failed credential: 401, and the route is not reached.
authMiddleware == Response(401, "Unauthorized", {}, << >>)

\* A request to the owner-scoped router with a credential that fails.
JwtUnauthenticated(op, id, b) ==
    /\ app = "jwt"
    /\ Idle
    /\ Reject(Request(op, NoUser, id, b), authMiddleware)

NextAuth ==
    \/ Next
    \/ \E op \in Operations, id \in Ids, b \in {NoBody, ValidBundle} :
           JwtUnauthenticated(op, id, b)
    \/ \E b \in Bundles : SeqPost(NoUser, b)
    \/ SeqGetAll(NoUser)
    \/ \E id \in Ids : SeqGetOne(NoUser, id)
    \/ \E id \in Ids, b \in Bundles : SeqPut(NoUser, id, b)
    \/ \E id \in Ids : SeqDelete(NoUser, id)

SpecAuth == Init /\ [][NextAuth]_vars

(***************************************************************************)
(* C12.  Authentication gates every CRUD call: a request whose credential  *)
(* fails authentication is answered AuthenticationError (401), and no      *)
(* handler reads or changes the store for it.                              *)
(***************************************************************************)
C12_AuthGatesCrud ==
    (~Idle /\ req.user = NoUser) =>
        /\ resp.status = 401
        /\ resp.data = << >>
        /\ customers = prev

(***************************************************************************)
(* Concurrent requests.  Node runs a handler without interruption up to    *)
(* its next await, and every await of the routes is one call of the model, *)
(* which the store executes as one statement.  A request in flight is      *)
(* therefore a sequence of steps, one per model call, and the steps of the *)
(* requests on different connections interleave.  What a handler computes  *)
(* in the process before a call (the validation of the body) is part of    *)
(* the step of that call.                                                  *)
(***************************************************************************)
\* The caller of the concurrent requests.
ConcUser == 1

\* A second valid bundle, unlike ValidBundle in every field but the phone.
OtherBundle ==
    [first_name |-> Li, last_name |-> Jo, email |-> KoAtXCo,
     phone |-> Phone51, address |-> <<"2", ",", "M">>]

ConcBundles == {ValidBundle, OtherBundle}

\* The requests that arrive on the connections.
ConcRequests ==
    {Request("post", ConcUser, 0, b) : b \in ConcBundles}
    \cup {Request("get", ConcUser, id, NoBody) : id \in 1..MaxId}
    \cup {Request("list", ConcUser, 0, NoBody)}
    \cup {Request("put", ConcUser, id, b) : id \in 1..MaxId, b \in ConcBundles}
    \cup {Request("delete", ConcUser, id, NoBody) : id \in 1..MaxId}

Flight(p) == inflight[p]

\* The handler on connection p is about to make its first model call.
Received(p, op) == Flight(p).pc = "received" /\ Flight(p).req.op = op

\* The handler on connection p has its response: res.json(answer).
Finish(p, answer, old) ==
    inflight' = [inflight EXCEPT ![p].pc = "done", ![p].resp = answer,
                                 ![p].old = old]

\* The handler on connection p has not made its last model call yet.
Pending(p) == Flight(p).pc \in {"received", "found"}

\* A request arrives on connection p.  History: overlap marks the requests
\* that were pending together; both have it when the later of the two arrived
\* while the other was pending.
Receive(p, r) ==
    /\ Flight(p).pc = "idle"
    /\ inflight' = [q \in Connections |->
           IF q = p
           THEN [NoFlight EXCEPT !.pc = "received", !.req = r,
                     !.overlap = \E o \in Connections \ {p} : Pending(o)]
           ELSE IF Pending(q) THEN [Flight(q) EXCEPT !.overlap = TRUE]
           ELSE Flight(q)]
    /\ UNCHANGED <<app, customers, nextId, now, createdBy, prev, req, resp>>
    /\ UNCHANGED <<clock, disk, exports, pdf, users, login>>

\* The response of connection p has been sent.
Respond(p) ==
    /\ Flight(p).pc = "done"
    /\ inflight' = [inflight EXCEPT ![p] = NoFlight]
    /\ UNCHANGED <<app, customers, nextId, now, createdBy, prev, req, resp>>
    /\ UNCHANGED <<clock, disk, exports, pdf, users, login>>

\* The store after the statement of a step: an INSERT of row c at time t.
Inserted(c, t) ==
    /\ customers' = customers \cup {c}
    /\ nextId' = nextId + 1
    /\ now' = t
    /\ createdBy' = [createdBy EXCEPT ![c.id] = ConcUser]
    /\ UNCHANGED <<app, prev, req, resp, clock, disk, exports, pdf, users, login>>

\* The store after a step that writes table S without an INSERT.
Written(S) ==
    /\ customers' = S
    /\ UNCHANGED <<app, nextId, now, createdBy, prev, req, resp>>
    /\ UNCHANGED <<clock, disk, exports, pdf, users, login>>

\* router.post('/') of the owner-scoped router: await Customer.create(...).
ConcJwtPost(p) ==
    /\ app = "jwt"
    /\ Received(p, "post")
    /\ nextId <= MaxId
    /\ LET b == Flight(p).req.body
           err == PostValidation(b)
       IN  IF err # NoError
           THEN Finish(p, Response(400, err, {}, << >>), << >>) /\ Written(customers)
           ELSE \E t \in {now, now + 1} :
                    LET out == CustomerCreate(customers, b, ConcUser, nextId, t)
                    IN  IF out.error # NoError
                        THEN /\ Finish(p, JwtPostError(out.error), << >>)
                             /\ Written(customers)
                        ELSE /\ Finish(p, Response(201, "Customer created successfully",
                                                   {}, out.row), << >>)
                             /\ Inserted(out.row[1], t)

\* router.post('/') of the Sequelize router: await Customer.create(req.body),
\* the validators and then one INSERT, which the UNIQUE index may refuse.
ConcSeqPost(p) ==
    /\ app = "sequelize"
    /\ Received(p, "post")
    /\ nextId <= MaxId
    /\ LET b == Flight(p).req.body
           errs == ValidationErrors(b, FieldNames)
       IN  IF errs # {}
           THEN /\ Finish(p, Response(400, "Validation error", errs, << >>), << >>)
                /\ Written(customers)
           ELSE IF EmailTaken(customers, b.email, 0)
           THEN /\ Finish(p, Response(400, "Email already exists", {}, << >>), << >>)
                /\ Written(customers)
           ELSE \E t \in {now, now + 1} :
                    LET c == NewRow(nextId, b, NoUser, t)
                    IN  /\ Finish(p, Response(201, "Customer created successfully",
                                              {}, <<c>>), << >>)
                        /\ Inserted(c, t)

\* router.get('/:id') of either router: one query.
ConcGetOne(p) ==
    /\ Received(p, "get")
    /\ Finish(p, IF app = "jwt"
                 THEN JwtGetOneAnswer(customers, ConcUser, Flight(p).req.id)
                 ELSE SeqGetOneAnswer(customers, Flight(p).req.id), << >>)
    /\ Written(customers)

\* router.get('/') of either router: one query.
ConcGetAll(p) ==
    /\ Received(p, "list")
    /\ \E answer \in (IF app = "jwt" THEN JwtGetAllAnswers(customers, ConcUser)
                      ELSE SeqGetAllAnswers(customers)) :
           Finish(p, answer, << >>)
    /\ Written(customers)

\* router.put('/:id') of the owner-scoped router: await Customer.update(...).
ConcJwtPut(p) ==
    /\ app = "jwt"
    /\ Received(p, "put")
    /\ LET b == Flight(p).req.body
           id == Flight(p).req.id
           err == PutValidation(b)
           out == CustomerUpdate(customers, id, b, ConcUser)
       IN  IF err # NoError
           THEN Finish(p, Response(400, err, {}, << >>), << >>) /\ Written(customers)
           ELSE IF out.error # NoError
           THEN Finish(p, JwtPutError(out.error), << >>) /\ Written(customers)
           ELSE /\ Finish(p, Response(200, "Customer updated successfully", {},
                                      out.row),
                          <<CHOOSE c \in findById(customers, id, ConcUser) : TRUE>>)
                /\ Written(out.table)

\* router.put('/:id') of the Sequelize router, first call:
\* await Customer.findByPk(req.params.id).
ConcSeqPutFind(p) ==
    /\ app = "sequelize"
    /\ Received(p, "put")
    /\ LET found == findByPk(customers, Flight(p).req.id)
       IN  IF found = {}
           THEN Finish(p, Response(404, "Customer not found", {}, << >>), << >>)
           ELSE inflight' = [inflight EXCEPT ![p].pc = "found",
                                 ![p].inst = <<CHOOSE c \in found : TRUE>>]
    /\ Written(customers)

\* router.put('/:id') of the Sequelize router, second call:
\* await customer.update({...}) on the instance read by the first.  The
\* validators run on the instance; when no attribute of the instance has
\* changed no statement is sent; otherwise one UPDATE ... WHERE id sets the
\* attributes, on the row as it is now, if it is still there.
ConcSeqPutUpdate(p) ==
    /\ app = "sequelize"
    /\ Flight(p).pc = "found" /\ Flight(p).req.op = "put"
    /\ \E dropUndefined \in BOOLEAN :
        LET b == Flight(p).req.body
            id == Flight(p).req.id
            inst == Flight(p).inst[1]
            fields == UpdateFields(b, dropUndefined)
            errs == ValidationErrors(b, fields)
            new == SetFields(inst, b, fields)
            cur == findByPk(customers, id)
            ok == Response(200, "Customer updated successfully", {}, <<new>>)
        IN  IF errs # {}
            THEN /\ Finish(p, Response(400, "Validation error", errs, << >>), << >>)
                 /\ Written(customers)
            ELSE IF new = inst \/ cur = {}
            THEN Finish(p, ok, << >>) /\ Written(customers)
            ELSE IF EmailTaken(customers, new.email, id)
            THEN /\ Finish(p, Response(400, "Email already exists", {}, << >>), << >>)
                 /\ Written(customers)
            ELSE LET old == CHOOSE c \in cur : TRUE
                 IN  /\ Finish(p, ok, <<old>>)
                     /\ Written((customers \ {old}) \cup {SetFields(old, b, fields)})

\* router.delete('/:id') of the owner-scoped router:
\* await Customer.delete(customerId, req.user.id).
ConcJwtDelete(p) ==
    /\ app = "jwt"
    /\ Received(p, "delete")
    /\ LET out == JwtDeleteOutcome(customers, ConcUser, Flight(p).req.id)
       IN  Finish(p, out.answer, << >>) /\ Written(out.table)

\* router.delete('/:id') of the Sequelize router, first call:
\* await Customer.findByPk(req.params.id).
ConcSeqDeleteFind(p) ==
    /\ app = "sequelize"
    /\ Received(p, "delete")
    /\ LET found == findByPk(customers, Flight(p).req.id)
       IN  IF found = {}
           THEN Finish(p, Response(404, "Customer not found", {}, << >>), << >>)
           ELSE inflight' = [inflight EXCEPT ![p].pc = "found",
                                 ![p].inst = <<CHOOSE c \in found : TRUE>>]
    /\ Written(customers)

\* router.delete('/:id') of the Sequelize router, second call:
\* await customer.destroy() on the instance read by the first, one
\* DELETE ... WHERE id, which removes the row if it is still there and
\* succeeds either way.
ConcSeqDeleteDestroy(p) ==
    /\ app = "sequelize"
    /\ Flight(p).pc = "found" /\ Flight(p).req.op = "delete"
    /\ Finish(p, Response(200, "Customer deleted successfully", {}, << >>), << >>)
    /\ Written(customers \ findByPk(customers, Flight(p).req.id))

NextConc ==
    \E p \in Connections :
        \/ \E r \in ConcRequests : Receive(p, r)
        \/ ConcJwtPost(p)
        \/ ConcSeqPost(p)
        \/ ConcGetOne(p)
        \/ ConcGetAll(p)
        \/ ConcJwtPut(p)
        \/ ConcSeqPutFind(p)
        \/ ConcSeqPutUpdate(p)
        \/ ConcJwtDelete(p)
        \/ ConcSeqDeleteFind(p)
        \/ ConcSeqDeleteDestroy(p)
        \/ Respond(p)

SpecConc == Init /\ [][NextConc]_vars

(***************************************************************************)
(* Vocabulary of the properties of concurrent requests.                    *)
(***************************************************************************)
\* Connection p has its response to a request of kind op, not yet sent.
Answered(p, op) == Flight(p).pc = "done" /\ Flight(p).req.op = op

\* Connections p and q hold answered creates that carry the same email and
\* pass the validation, and the two were pending together.
SameEmailCreates(p, q) ==
    /\ p # q
    /\ Answered(p, "post") /\ Answered(q, "post")
    /\ Flight(p).req.body.email = Flight(q).req.body.email
    /\ PassesCreateValidation(Flight(p).req.body)
    /\ PassesCreateValidation(Flight(q).req.body)
    /\ Flight(p).overlap /\ Flight(q).overlap

DigitChars == <<"0", "1", "2", "3", "4", "5", "6", "7", "8", "9">>

RECURSIVE DecimalString(_)
\* String(n) for a number n >= 0.
DecimalString(n) ==
    IF n < 10 THEN <<DigitChars[n + 1]>>
    ELSE DecimalString(n \div 10) \o <<DigitChars[(n % 10) + 1]>>

\* Two digits of a clock reading.
TwoDigits(t) == IF t < 10 THEN <<"0">> \o DecimalString(t) ELSE DecimalString(t % 100)

\* String(date) of the Date that stands t seconds after the epoch.
DateToString(t) == <<"Thu Jan 01 1970 00:00:">> \o TwoDigits(t) \o <<" GMT+0000">>

\* date.toLocaleString() of the same Date.
ToLocaleString(t) == <<"1/1/1970, 12:00:">> \o TwoDigits(t) \o <<" AM">>

(***************************************************************************)
(* exportToCSV (backend/utils/csvExport.js) over csv-writer's object       *)
(* writer.  A file is a sequence of lines and a line a sequence of cells;  *)
(* the writer joins the cells of a line with "," and ends each line with a *)
(* newline.                                                                *)
(***************************************************************************)
\* The header option of createObjectCsvWriter.
CsvHeader ==
    <<[id |-> "id", title |-> <<"ID">>],
      [id |-> "first_name", title |-> <<"First Name">>],
      [id |-> "last_name", title |-> <<"Last Name">>],
      [id |-> "email", title |-> <<"Email">>],
      [id |-> "phone", title |-> <<"Phone">>],
      [id |-> "address", title |-> <<"Address">>],
      [id |-> "date_created", title |-> <<"Date Created">>]>>

\* The characters that make csv-writer quote a field.
CsvSpecial == {",", "\"", "\n", "\r"}

RECURSIVE CsvDoubleQuotes(_)
\* The field with every quote character doubled.
CsvDoubleQuotes(s) ==
    IF s = << >> THEN << >>
    ELSE (IF Head(s) = "\"" THEN <<"\"", "\"">> ELSE <<Head(s)>>)
             \o CsvDoubleQuotes(Tail(s))

\* csv-writer's field stringifier on a text.
CsvField(s) ==
    IF \E k \in 1..Len(s) : s[k] \in CsvSpecial
    THEN <<"\"">> \o CsvDoubleQuotes(s) \o <<"\"">>
    ELSE s

\* String(record[id]): the numbers and the Date of a row become text.
CsvValue(c, id) ==
    IF id = "id" THEN DecimalString(c.id)
    ELSE IF id = "date_created" THEN DateToString(c.date_created)
    ELSE c[id]

\* The line of the header titles.
CsvHeaderLine == [k \in 1..Len(CsvHeader) |-> CsvField(CsvHeader[k].title)]

\* The line of one record.
CsvRecordLine(c) == [k \in 1..Len(CsvHeader) |-> CsvField(CsvValue(c, CsvHeader[k].id))]

\* exportToCSV with the records written last to first.
exportToCSVReversed(records) ==
    <<CsvHeaderLine>>
        \o [k \in 1..Len(records) |-> CsvRecordLine(records[Len(records) + 1 - k])]

\* The file exportToCSV(records) writes: csvWriter.writeRecords(records) on a
\* new writer gives the header line and then the records, whatever their
\* number.
exportToCSV(records) ==
    <<CsvHeaderLine>> \o [k \in 1..Len(records) |-> CsvRecordLine(records[k])]

(***************************************************************************)
(* exportToPDF (backend/utils/csvExport.js, lines 32-113) over pdfkit.     *)
(* The document is the sequence of the drawing calls made on it; a call    *)
(* records the page it draws on.  The title lines are placed by pdfkit's   *)
(* text flow: they have no coordinates in the source and x = y = 0 here.   *)
(***************************************************************************)
tableTop == 150

itemHeight == 30

\* The cursor position beyond which a row starts a new page.
pageBreakY == 700

\* The cursor position of the first row of a new page.
pageTopY == 50

PdfText(page, x, y, s) == [op |-> "text", page |-> page, x |-> x, y |-> y, s |-> s]

PdfLine(page, y) == [op |-> "line", page |-> page, x |-> 50, y |-> y, s |-> << >>]

PdfAddPage(page) == [op |-> "addPage", page |-> page, x |-> 0, y |-> 0, s |-> << >>]

\* The document and the cursor after the title, the table headers and the
\* header line (lines 51-74), generated at time t.
PdfHeader(t) ==
    [page |-> 1,
     y |-> tableTop + itemHeight,
     ops |-> <<PdfText(1, 0, 0, <<"Customer List">>),
               PdfText(1, 0, 0, <<"Generated on: ">> \o ToLocaleString(t)),
               PdfText(1, 50, tableTop, <<"ID">>),
               PdfText(1, 85, tableTop, <<"Name">>),
               PdfText(1, 210, tableTop, <<"Email">>),
               PdfText(1, 365, tableTop, <<"Phone">>),
               PdfLine(1, tableTop + 15)>>]

\* PdfDrawRow without the test of the cursor: no row starts a new page.
PdfDrawRowOnSamePage(st, c, i, n) ==
    [page |-> st.page,
     y |-> st.y + itemHeight,
     ops |-> st.ops
             \o <<PdfText(st.page, 50, st.y, DecimalString(c.id)),
                  PdfText(st.page, 85, st.y, c.first_name \o <<" ">> \o c.last_name),
                  PdfText(st.page, 210, st.y, c.email),
                  PdfText(st.page, 365, st.y, c.phone)>>
             \o (IF i < n THEN <<PdfLine(st.page, st.y + itemHeight - 15)>> ELSE << >>)]

\* PdfDrawRow that starts a new page at the height of the table's top.
PdfDrawRowFromTableTop(st, c, i, n) ==
    LET break == st.y > pageBreakY
        page == IF break THEN st.page + 1 ELSE st.page
        y == IF break THEN tableTop ELSE st.y
    IN  [page |-> page,
         y |-> y + itemHeight,
         ops |-> st.ops
                 \o (IF break THEN <<PdfAddPage(page)>> ELSE << >>)
                 \o <<PdfText(page, 50, y, DecimalString(c.id)),
                      PdfText(page, 85, y, c.first_name \o <<" ">> \o c.last_name),
                      PdfText(page, 210, y, c.email),
                      PdfText(page, 365, y, c.phone)>>
                 \o (IF i < n THEN <<PdfLine(page, y + itemHeight - 15)>> ELSE << >>)]

\* PdfDrawRow that draws the separator line under the last row too.
PdfDrawRowLineUnderEach(st, c, i, n) ==
    LET break == st.y > pageBreakY
        page == IF break THEN st.page + 1 ELSE st.page
        y == IF break THEN pageTopY ELSE st.y
    IN  [page |-> page,
         y |-> y + itemHeight,
         ops |-> st.ops
                 \o (IF break THEN <<PdfAddPage(page)>> ELSE << >>)
                 \o <<PdfText(page, 50, y, DecimalString(c.id)),
                      PdfText(page, 85, y, c.first_name \o <<" ">> \o c.last_name),
                      PdfText(page, 210, y, c.email),
                      PdfText(page, 365, y, c.phone)>>
                 \o <<PdfLine(page, y + itemHeight - 15)>>]

\* One iteration of customers.forEach (lines 76-96) for the i-th of n
\* customers, i counted from 1.
PdfDrawRow(st, c, i, n) ==
    LET break == st.y > pageBreakY
        page == IF break THEN st.page + 1 ELSE st.page
        y == IF break THEN pageTopY ELSE st.y
    IN  [page |-> page,
         y |-> y + itemHeight,
         ops |-> st.ops
                 \o (IF break THEN <<PdfAddPage(page)>> ELSE << >>)
                 \o <<PdfText(page, 50, y, DecimalString(c.id)),
                      PdfText(page, 85, y, c.first_name \o <<" ">> \o c.last_name),
                      PdfText(page, 210, y, c.email),
                      PdfText(page, 365, y, c.phone)>>
                 \o (IF i < n THEN <<PdfLine(page, y + itemHeight - 15)>> ELSE << >>)]

\* PdfDrawFooter that draws no footer under an empty table.
PdfDrawFooterUnlessEmpty(st, n) ==
    [st EXCEPT !.ops =
        IF n = 0 THEN @
        ELSE @ \o <<PdfText(st.page, 50, st.y + 20,
                            <<"Total Customers: ">> \o DecimalString(n))>>]

\* The footer (lines 98-104) under n customers.
PdfDrawFooter(st, n) ==
    [st EXCEPT !.ops =
        @ \o <<PdfText(st.page, 50, st.y + 20,
                       <<"Total Customers: ">> \o DecimalString(n))>>]

RECURSIVE PdfDrawRows(_, _, _)
\* The forEach loop from its i-th iteration on.
PdfDrawRows(st, records, i) ==
    IF i > Len(records) THEN st
    ELSE PdfDrawRows(PdfDrawRow(st, records[i], i, Len(records)), records, i + 1)

\* The document exportToPDF(records) writes at time t.
exportToPDF(records, t) ==
    PdfDrawFooter(PdfDrawRows(PdfHeader(t), records, 1), Len(records)).ops

(***************************************************************************)
(* One call of exportToPDF, iteration by iteration.                        *)
(***************************************************************************)
\* The largest number of customers handed to the call.
MaxRows == 41

\* The k-th of the customers handed to the call.
PdfCustomer(k) ==
    NewRow(k, [ValidBundle EXCEPT !.email = DecimalString(k) \o <<"@", "x", ".", "c", "o">>],
           NoUser, 1)

\* n customers as findAll returns them, the newest (highest id) first.
PdfCustomers(n) == [k \in 1..n |-> PdfCustomer(n + 1 - k)]

InitPdf ==
    /\ InitServer
    /\ app = "sequelize"
    /\ pdf \in {[NoCall EXCEPT !.customers = PdfCustomers(n)] : n \in 0..MaxRows}

PdfStep(st, pc, i) ==
    /\ pdf' = [pdf EXCEPT !.pc = pc, !.i = i, !.page = st.page, !.y = st.y,
                          !.ops = st.ops]
    /\ UNCHANGED <<app, customers, nextId, now, createdBy, prev, req, resp>>
    /\ UNCHANGED <<inflight, clock, disk, exports, users, login>>

\* Lines 46-74: the document is created and its header drawn.
PdfBegin ==
    /\ pdf.pc = "idle"
    /\ PdfStep(PdfHeader(clock), "rows", 1)

\* Lines 76-96: one iteration of the loop.
PdfForEach ==
    /\ pdf.pc = "rows"
    /\ pdf.i <= Len(pdf.customers)
    /\ PdfStep(PdfDrawRow(pdf, pdf.customers[pdf.i], pdf.i, Len(pdf.customers)),
               "rows", pdf.i + 1)

\* Lines 98-106: the footer is drawn and the document ended.
PdfEnd ==
    /\ pdf.pc = "rows"
    /\ pdf.i > Len(pdf.customers)
    /\ PdfStep(PdfDrawFooter(pdf, Len(pdf.customers)), "done", pdf.i)

NextPdf == PdfBegin \/ PdfForEach \/ PdfEnd

SpecPdf == InitPdf /\ [][NextPdf]_vars

(***************************************************************************)
(* The export routes of the Sequelize router (customers.js, lines          *)
(* 130-171).  A handler runs up to its next await; the file system calls   *)
(* it awaits (the write of the file, the transfer of res.download)         *)
(* complete in later steps, between which the other connection may run.    *)
(***************************************************************************)
Export(p) == exports[p]

\* The process has died of an exception thrown outside every try block.
Crashed == \E p \in Connections : Export(p).pc = "crashed"

\* What exportToCSV or exportToPDF writes for the records at time t.
ExportContent(kind, records, t) ==
    IF kind = "csv" THEN exportToCSV(records) ELSE exportToPDF(records, t)

ExportFrame ==
    /\ UNCHANGED <<app, customers, nextId, now, createdBy, prev, req, resp>>
    /\ UNCHANGED <<inflight, pdf, users, login>>

\* Date.now() moves on.
Tick ==
    /\ ~Crashed
    /\ clock < MaxTick
    /\ clock' = clock + 1
    /\ UNCHANGED <<disk, exports>>
    /\ ExportFrame

\* router.get('/export/csv') or ('/export/pdf') on a connection whose last
\* export, if any, is over, up to the write it awaits:
\* the query, then the file name from Date.now() and the content (customers.js
\* 132-136 or 154-158, csvExport.js 5-27 or 36-106).
ExportBegin(p, kind) ==
    /\ ~Crashed
    /\ app = "sequelize"
    /\ Export(p).pc \in {"idle", "closed"}
    /\ \E records \in findAll(customers) :
           exports' = [exports EXCEPT ![p] =
               [NoExport EXCEPT !.pc = "writing", !.kind = kind,
                    !.records = records,
                    !.path = <<"customers_", clock, "." \o kind>>,
                    !.wrote = ExportContent(kind, records, clock)]]
    /\ UNCHANGED <<clock, disk>>
    /\ ExportFrame

\* The write completes: the file of that name now holds the content, whatever
\* it held; the handler goes on to res.download, which starts the transfer.
ExportWritten(p) ==
    /\ ~Crashed
    /\ Export(p).pc = "writing"
    /\ disk' = [disk EXCEPT ![Export(p).path] = File(Export(p).wrote)]
    /\ exports' = [exports EXCEPT ![p].pc = "written"]
    /\ UNCHANGED clock
    /\ ExportFrame

\* res.download reads the file and sends it: what the client gets is what
\* the file holds now, or nothing if there is no such file.
ExportTransfer(p) ==
    /\ ~Crashed
    /\ Export(p).pc = "written"
    /\ exports' = [exports EXCEPT ![p].pc = "transferred",
                                  ![p].sent = disk[Export(p).path]]
    /\ UNCHANGED <<clock, disk>>
    /\ ExportFrame

\* The callback of res.download (customers.js 138-144 or 160-166):
\* fs.unlinkSync(filePath), which throws if there is no such file; the
\* callback runs outside the try block of the handler.
ExportCleanup(p) ==
    /\ ~Crashed
    /\ Export(p).pc = "transferred"
    /\ IF ~disk[Export(p).path].exists
       THEN /\ exports' = [exports EXCEPT ![p].pc = "crashed"]
            /\ UNCHANGED disk
       ELSE /\ exports' = [exports EXCEPT ![p].pc = "closed"]
            /\ disk' = [disk EXCEPT ![Export(p).path] = NoFile]
    /\ UNCHANGED clock
    /\ ExportFrame

\* The tables the exports read: the table after no create, after a create
\* of ValidBundle, and after a further create of OtherBundle in the same
\* second or a later one.
ExportTables ==
    {{}, {NewRow(1, ValidBundle, NoUser, 1)}}
    \cup {{NewRow(1, ValidBundle, NoUser, 1), NewRow(2, OtherBundle, NoUser, t)} :
              t \in {1, 2}}

\* The Sequelize server, idle, after the creates that gave table T.
InitExport ==
    \E T \in ExportTables :
        /\ app = "sequelize"
        /\ customers = T
        /\ nextId = Cardinality(T) + 1
        /\ now = IF \E c \in T : c.date_created = 2 THEN 2 ELSE 1
        /\ createdBy = [i \in Ids |-> IF i <= Cardinality(T) THEN ConcUser ELSE NoUser]
        /\ prev = T
        /\ req = Request("none", NoUser, 0, NoBody)
        /\ resp = Response(0, "", {}, << >>)
        /\ inflight = [p \in Connections |-> NoFlight]
        /\ clock = 1
        /\ disk = [f \in Paths |-> NoFile]
        /\ exports = [p \in Connections |-> NoExport]
        /\ pdf = NoCall
        /\ users = {}
        /\ login = NoLogin

NextExport ==
    \/ Tick
    \/ \E p \in Connections :
           \/ \E kind \in {"csv", "pdf"} : ExportBegin(p, kind)
           \/ ExportWritten(p)
           \/ ExportTransfer(p)
           \/ ExportCleanup(p)

SpecExport == InitExport /\ [][NextExport]_vars

(***************************************************************************)
(* C14.  ToCSV on an empty record sequence fails with EmptyInputError and  *)
(* produces no file: an export to CSV of an empty table gets no further    *)
(* than its failure, and writes nothing.                                   *)
(***************************************************************************)
C14_CsvEmptyInputFails ==
    \A p \in Connections :
        (Export(p).kind = "csv" /\ Export(p).records = << >>)
            => Export(p).pc \in {"writing", "failed"}

(***************************************************************************)
(* C15.  For a non-empty record sequence the first line of the file ToCSV  *)
(* writes is exactly the seven titles ID, First Name, Last Name, Email,    *)
(* Phone, Address, Date Created, and it is followed by exactly one line    *)
(* per record, in input order, with the record's fields in that column     *)
(* order.                                                                  *)
(***************************************************************************)
RECURSIVE CsvParseQuoted(_)
\* The text of the inside of a quoted cell: doubled quotes read as one.
CsvParseQuoted(s) ==
    IF s = << >> THEN << >>
    ELSE IF Head(s) = "\"" /\ Len(s) > 1 /\ s[2] = "\""
    THEN <<"\"">> \o CsvParseQuoted(Tail(Tail(s)))
    ELSE <<Head(s)>> \o CsvParseQuoted(Tail(s))

\* The text a reader of the file takes from a cell.
CsvParse(cell) ==
    IF cell # << >> /\ Head(cell) = "\"" /\ cell[Len(cell)] = "\"" /\ Len(cell) > 1
    THEN CsvParseQuoted(SubSeq(cell, 2, Len(cell) - 1))
    ELSE cell

\* The columns a reader takes from a line.
CsvColumns(line) == [k \in 1..Len(line) |-> CsvParse(line[k])]

C15_CsvHeaderAndRows ==
    \A p \in Connections :
        (Export(p).kind = "csv" /\ Export(p).records # << >>) =>
            LET file == Export(p).wrote
                records == Export(p).records
            IN  /\ Len(file) = Len(records) + 1
                /\ file[1] = <<<<"ID">>, <<"First Name">>, <<"Last Name">>, <<"Email">>,
                                <<"Phone">>, <<"Address">>, <<"Date Created">>>>
                /\ \A k \in 1..Len(records) :
                       CsvColumns(file[k + 1]) =
                           <<DecimalString(records[k].id), records[k].first_name,
                             records[k].last_name, records[k].email,
                             records[k].phone, records[k].address,
                             DateToString(records[k].date_created)>>

\* A CSV file of two records was written to the disk, one of them with a
\* comma in its address.
C15_Witness ==
    \E p \in Connections :
        /\ Export(p).kind = "csv" /\ Export(p).pc = "written"
        /\ Len(Export(p).records) = 2
        /\ \E k \in 1..2 : \E i \in 1..Len(Export(p).records[k].address) :
               Export(p).records[k].address[i] = ","
        /\ disk[Export(p).path] = File(Export(p).wrote)

(***************************************************************************)
(* Vocabulary of the properties of the PDF document.                       *)
(***************************************************************************)
\* The positions in the document of the texts that begin with piece.
TextsFrom(ops, piece) ==
    {k \in 1..Len(ops) : ops[k].op = "text" /\ ops[k].s # << >> /\ ops[k].s[1] = piece}

IsEmailCell(o) == o.op = "text" /\ o.x = 210 /\ o.s # <<"Email">>

IsIdCell(o) == o.op = "text" /\ o.x = 50 /\ o.y # tableTop /\ o.s[1] # "Total Customers: "

\* The rows of the table the first page holds under the header.
RowsOnFirstPage == ((pageBreakY - (tableTop + itemHeight)) \div itemHeight) + 1

(***************************************************************************)
(* C16.  For every number N >= 0 of records, ToPDF ends with a document    *)
(* that holds the footer exactly once, as its last drawing after the last  *)
(* row, and the footer reads "Total Customers: N"; no footer is drawn      *)
(* before the last row.                                                    *)
(***************************************************************************)
C16_PdfFooterOnce ==
    LET ops == pdf.ops
        n == Len(pdf.customers)
    IN  /\ pdf.pc = "rows" => TextsFrom(ops, "Total Customers: ") = {}
        /\ pdf.pc = "done" =>
               /\ TextsFrom(ops, "Total Customers: ") = {Len(ops)}
               /\ ops[Len(ops)].s = <<"Total Customers: ">> \o DecimalString(n)
               /\ Len(SelectSeq(ops, IsIdCell)) = n

\* The document of an empty table is complete, with its footer.
C16_Witness ==
    /\ pdf.pc = "done"
    /\ pdf.customers = << >>
    /\ pdf.ops[Len(pdf.ops)].s = <<"Total Customers: ", "0">>

(***************************************************************************)
(* C17.  When the number of records exceeds what the first page holds, the *)
(* document has more than one page, and every record is drawn exactly once *)
(* and in input order: the id and email cells of the document are those of *)
(* the records, in their order, each row below the one before it or on a   *)
(* later page.                                                             *)
(***************************************************************************)
C17_PdfPagination ==
    pdf.pc = "done" =>
        LET ops == pdf.ops
            n == Len(pdf.customers)
            ids == SelectSeq(ops, IsIdCell)
            emails == SelectSeq(ops, IsEmailCell)
        IN  /\ n > RowsOnFirstPage => pdf.page > 1
            /\ pdf.page = 1 + Cardinality({k \in 1..Len(ops) : ops[k].op = "addPage"})
            /\ Len(ids) = n /\ Len(emails) = n
            /\ \A k \in 1..n :
                   /\ ids[k].s = DecimalString(pdf.customers[k].id)
                   /\ emails[k].s = pdf.customers[k].email
                   /\ ids[k].page = emails[k].page /\ ids[k].y = emails[k].y
                   /\ ids[k].y <= pageBreakY
            /\ \A k \in 1..(n - 1) :
                   \/ ids[k].page < ids[k + 1].page
                   \/ ids[k].page = ids[k + 1].page /\ ids[k].y < ids[k + 1].y

\* A document whose rows fill two pages and reach a third.
C17_Witness ==
    /\ pdf.pc = "done"
    /\ Len(pdf.customers) > RowsOnFirstPage
    /\ pdf.page = 3

(***************************************************************************)
(* C18.  Concurrent export requests, two in the same clock tick included,  *)
(* do not interfere: each export writes and transfers its own file, no     *)
(* file is overwritten or removed by another request before its transfer   *)
(* has finished, and the removal of a file after its transfer does not     *)
(* fail.                                                                   *)
(***************************************************************************)
C18_ExportsDoNotInterfere ==
    \A p \in Connections :
        /\ Export(p).pc = "written" => disk[Export(p).path] = File(Export(p).wrote)
        /\ Export(p).pc \in {"transferred", "closed"}
               => Export(p).sent = File(Export(p).wrote)
        /\ Export(p).pc # "crashed"
        /\ \A q \in Connections \ {p} :
               (Export(p).pc \in {"writing", "written"}
                /\ Export(q).pc \in {"writing", "written"})
                   => Export(p).path # Export(q).path

(***************************************************************************)
(* C19.  id and created_at, once assigned, never change: whatever the      *)
(* request, a record that is still in the store has the id, the            *)
(* date_created and the owner it had.  An update changes at most the       *)
(* record it names, and of it only the five user fields: every other       *)
(* record is left as it was, and no record appears or disappears.          *)
(***************************************************************************)
C19_UpdateFrame ==
    ~Idle =>
        /\ \A c \in prev, d \in customers :
               c.id = d.id => /\ d.date_created = c.date_created
                              /\ d.user_id = c.user_id
        /\ req.op = "put" =>
               /\ \A c \in prev : c.id # req.id => c \in customers
               /\ \A d \in customers : d.id # req.id => d \in prev
               /\ {d.id : d \in customers} = {c.id : c \in prev}
               /\ \A c \in prev, d \in customers :
                      (c.id = d.id /\ c # d) =>
                          \E f \in FieldNames : d[f] = req.body[f] /\ d[f] # c[f]

\* An update changed a record while the store held another one.
C19_Witness ==
    /\ ~Idle /\ req.op = "put" /\ resp.status = 200
    /\ customers # prev
    /\ Cardinality(customers) = 2

(***************************************************************************)
(* C20.  update replaces the five user fields of a record in one step of   *)
(* the store: a get or list that runs concurrently with an update of a     *)
(* record observes that record with all five old values or with all five   *)
(* new values, never with some of each.                                    *)
(***************************************************************************)
\* Connection p holds an answered read, connection q an answered update that
\* wrote (old is the record as the write found it), and the two were pending
\* together.
ReadDuringUpdate(p, q) ==
    /\ p # q
    /\ Flight(p).pc = "done" /\ Flight(p).req.op \in {"get", "list"}
    /\ Flight(q).pc = "done" /\ Flight(q).req.op = "put"
    /\ Flight(q).old # << >>
    /\ Flight(p).overlap /\ Flight(q).overlap

C20_UpdateAtomic ==
    \A p, q \in Connections :
        ReadDuringUpdate(p, q) =>
            \A c \in Rows(Flight(p).resp) :
                c.id = Flight(q).req.id =>
                    \/ c = Flight(q).old[1]
                    \/ /\ SameFields(c, Flight(q).req.body)
                       /\ c.date_created = Flight(q).old[1].date_created

\* A get read the record between the two calls of an update that then
\* changed it: the reader has all the old values.
C20_Witness ==
    \E p, q \in Connections :
        /\ ReadDuringUpdate(p, q)
        /\ Flight(p).req.op = "get" /\ Flight(p).req.id = Flight(q).req.id
        /\ Flight(q).resp.status = 200
        /\ Flight(q).inst # << >>
        /\ ~SameFields(Flight(q).old[1], Flight(q).req.body)
        /\ Rows(Flight(p).resp) = {Flight(q).old[1]}

(***************************************************************************)
(* C21.  Validation errors are never conflated with ownership errors: an   *)
(* update addressed to a record that exists but was created by another     *)
(* user is answered NotFoundError whatever the field bundle, never         *)
(* ValidationError, with the response an id that does not exist gets.      *)
(***************************************************************************)
C21_OwnershipBeforeValidation ==
    (/\ ~Idle /\ req.op = "put"
     /\ \E c \in prev : c.id = req.id /\ createdBy[c.id] # req.user)
        => /\ ErrorKind(resp) = "NotFoundError"
           /\ resp = Response(404, "Customer not found or unauthorized", {}, << >>)
           /\ customers = prev

(***************************************************************************)
(* C22.  The export file is ephemeral: the file an export request wrote is *)
(* still there until its transfer has finished, it is removed by the       *)
(* callback of the transfer, whose removal does not fail, and once every   *)
(* export request is over no export file is left on the disk.              *)
(***************************************************************************)
C22_ExportFileEphemeral ==
    /\ \A p \in Connections :
           /\ Export(p).pc = "written" => disk[Export(p).path].exists
           /\ Export(p).pc # "crashed"
    /\ (\A p \in Connections : Export(p).pc \in {"idle", "closed"})
           => \A f \in Paths : ~disk[f].exists

(***************************************************************************)
(* C23.  A create, or an update of a record of the caller, whose           *)
(* first_name or last_name is given and is shorter than 2 or longer than   *)
(* 100 characters is answered ValidationError and writes nothing; every    *)
(* stored record has a first_name and a last_name of 2 to 100 characters.  *)
(***************************************************************************)
NameLengthOk(v) == NameMin <= Len(v) /\ Len(v) <= NameMax

C23_NameLength ==
    /\ \A c \in customers : NameLengthOk(c.first_name) /\ NameLengthOk(c.last_name)
    /\ (/\ ~Idle
        /\ \/ req.op = "post"
           \/ /\ req.op = "put"
              /\ \E c \in prev : c.id = req.id /\ createdBy[c.id] = req.user
        /\ \E f \in {"first_name", "last_name"} :
               req.body[f] # Undefined /\ ~NameLengthOk(req.body[f]))
           => /\ ErrorKind(resp) = "ValidationError"
              /\ customers = prev

(***************************************************************************)
(* C24.  create accepts an email exactly when the whole string is: one or  *)
(* more characters that are neither whitespace nor "@", then "@", then one *)
(* or more such characters, then ".", then one or more such characters.    *)
(* With the other four fields valid, a create with such an email is not    *)
(* answered ValidationError, and a create with any other email is, and     *)
(* persists nothing.                                                       *)
(***************************************************************************)
\* The whole of s is local@domain.tld, each part a run of one or more
\* characters other than whitespace and "@".
EmailPattern(s) ==
    \E at \in 1..Len(s), dot \in 1..Len(s) :
        /\ at < dot
        /\ s[at] = "@" /\ s[dot] = "."
        /\ at - 1 >= 1 /\ dot - at - 1 >= 1 /\ Len(s) - dot >= 1
        /\ \A k \in (1..Len(s)) \ {at, dot} : s[k] # " " /\ s[k] # "@"

C24_CreateEmailPattern ==
    (/\ ~Idle /\ req.op = "post"
     /\ [req.body EXCEPT !.email = ValidBundle.email] = ValidBundle)
        => IF EmailPattern(req.body.email)
           THEN ErrorKind(resp) # "ValidationError"
           ELSE ErrorKind(resp) = "ValidationError" /\ customers = prev

(***************************************************************************)
(* C25.  create accepts a phone exactly when it is non-empty and each of   *)
(* its characters is a digit, whitespace, "-", "+", "(" or ")".  With the  *)
(* other four fields valid, a create with such a phone is not answered     *)
(* ValidationError, and a create with any other phone is, and persists     *)
(* nothing.                                                                *)
(***************************************************************************)
PhoneClass == Digits \cup Whitespace \cup {"-", "+", "(", ")"}

PhonePattern(s) == Len(s) >= 1 /\ \A k \in 1..Len(s) : s[k] \in PhoneClass

C25_CreatePhonePattern ==
    (/\ ~Idle /\ req.op = "post"
     /\ [req.body EXCEPT !.phone = ValidBundle.phone] = ValidBundle)
        => IF req.body.phone # Undefined /\ PhonePattern(req.body.phone)
           THEN ErrorKind(resp) # "ValidationError"
           ELSE ErrorKind(resp) = "ValidationError" /\ customers = prev

(***************************************************************************)
(* C26.  ToPDF starts a new page exactly when the vertical cursor exceeds  *)
(* 700 before a row is drawn, and draws that row at 50: the first row is   *)
(* at 180 on page 1, and each further row is 30 below the one before it on *)
(* the same page, unless that position exceeds 700, and then at 50 on the  *)
(* next page.  So every data row is at a position of at most 700, the      *)
(* first page holds at most 18 data rows and every later page at most 22,  *)
(* and the table header is drawn on the first page only.                   *)
(***************************************************************************)
IsHeaderCell(o) ==
    o.op = "text" /\ o.s \in {<<"ID">>, <<"Name">>, <<"Email">>, <<"Phone">>}

IsLine(o) == o.op = "line"

C27_PdfSeparatorLines ==
    pdf.pc \in {"rows", "done"} =>
        LET ops == pdf.ops
            n == Len(pdf.customers)
            ids == SelectSeq(ops, IsIdCell)
            lines == SelectSeq(ops, IsLine)
        IN  /\ Len(lines) >= 1 /\ lines[1].page = 1 /\ lines[1].y = 165
            /\ \A k \in 1..Len(ids) :
                   IF k < n
                   THEN /\ Len(lines) >= k + 1
                        /\ lines[k + 1].page = ids[k].page
                        /\ lines[k + 1].y = ids[k].y + 15
                   ELSE Len(lines) = k
            /\ pdf.pc = "done" => Len(lines) = IF n = 0 THEN 1 ELSE n

\* A finished document of several records, with a row line on a later page
\* and none under the last row.
C27_Witness ==
    /\ pdf.pc = "done"
    /\ Len(pdf.customers) >= 2
    /\ Len(SelectSeq(pdf.ops, IsLine)) = Len(pdf.customers)
    /\ \E k \in 1..Len(pdf.ops) : pdf.ops[k].op = "line" /\ pdf.ops[k].page = 2
    /\ pdf.ops[Len(pdf.ops) - 1].op = "text"

(***************************************************************************)
(* C28.  Of two delete requests on the same id that run concurrently, in   *)
(* every interleaving of their lookup and removal steps at most one is     *)
(* answered with success, and the other is then answered NotFoundError; it *)
(* never happens that both report success for the one row.  Both are       *)
(* answered NotFoundError only when the row is not in the table.           *)
(***************************************************************************)
\* Connections p and q hold answered deletes of the same id, and the two
\* were pending together.
SameIdDeletes(p, q) ==
    /\ p # q
    /\ Answered(p, "delete") /\ Answered(q, "delete")
    /\ Flight(p).req.id = Flight(q).req.id
    /\ Flight(p).overlap /\ Flight(q).overlap

C28_ConcurrentDeleteSameId ==
    \A p, q \in Connections :
        SameIdDeletes(p, q) =>
            /\ ~(Flight(p).resp.status = 200 /\ Flight(q).resp.status = 200)
            /\ Flight(p).resp.status = 200
                   => ErrorKind(Flight(q).resp) = "NotFoundError"
            /\ Flight(p).resp.status # 200
                   => /\ ErrorKind(Flight(p).resp) = "NotFoundError"
                      /\ \A c \in customers : c.id # Flight(p).req.id

(***************************************************************************)
(* The auth routes of the owner-scoped server (backend/routes/auth.js)     *)
(* over the User model (models/User.js), which is not part of the sources: *)
(* findByEmail, create and verifyPassword are modelled from what the       *)
(* routes say of them.                                                     *)
(***************************************************************************)
Secret1 == <<"s", "e", "c", "r", "e", "t">>

Secret2 == <<"h", "u", "n", "t", "e", "r">>

ShortPassword == <<"p", "w">>

\* The bodies of the requests to POST /register.
RegisterBodies ==
    {[first_name |-> Jo, last_name |-> Li, email |-> e, password |-> pw,
      passwordConfirm |-> pc] :
         e \in {JoAtXCo, KoAtXCo, JxCo}, pw \in {Secret1, Secret2, ShortPassword},
         pc \in {Secret1, ShortPassword}}
    \cup {[NoAuthBody EXCEPT !.email = JoAtXCo, !.password = Secret1,
                             !.passwordConfirm = Secret1]}

\* The bodies of the requests to POST /login.
LoginBodies ==
    {[NoAuthBody EXCEPT !.email = e, !.password = pw] :
         e \in {Undefined, JoAtXCo, KoAtXCo}, pw \in {Undefined, Secret1, Secret2}}

AuthResponse(status, msg, token, user) ==
    [status |-> status, msg |-> msg, token |-> token, user |-> user]

\* The hash User.create stores for a password (salt left out).
HashPassword(pw) == <<"$2b$">> \o pw

\* User.verifyPassword(password, hash): bcrypt.compare.
verifyPassword(pw, hash) == HashPassword(pw) = hash

\* User.findByEmail(email)
findByEmail(U, email) == {u \in U : u.email = email}

\* The row User.create stores.
UserCreate(U, b) ==
    [id |-> Cardinality(U) + 1, first_name |-> b.first_name,
     last_name |-> b.last_name, email |-> b.email,
     password |-> HashPassword(b.password)]

\* jwt.sign({id, email}, process.env.JWT_SECRET, {expiresIn: '24h'})
JwtSign(u) == <<[id |-> u.id, email |-> u.email]>>

\* The user object of a response.
UserView(u) ==
    <<[id |-> u.id, first_name |-> u.first_name, last_name |-> u.last_name,
       email |-> u.email]>>

\* The response of router.post('/register') to body b over users table U.
RegisterAnswer(U, b) ==
    IF \E f \in DOMAIN b : Falsy(b[f])
    THEN AuthResponse(400, "All fields are required", << >>, << >>)
    ELSE IF b.password # b.passwordConfirm
    THEN AuthResponse(400, "Passwords do not match", << >>, << >>)
    ELSE IF Len(b.password) < 6
    THEN AuthResponse(400, "Password must be at least 6 characters", << >>, << >>)
    ELSE IF ~EmailRegexTest(b.email)
    THEN AuthResponse(400, "Invalid email format", << >>, << >>)
    ELSE IF findByEmail(U, b.email) # {}
    THEN AuthResponse(409, "Email already registered", << >>, << >>)
    ELSE LET u == UserCreate(U, b)
         IN  AuthResponse(201, "Registration successful", JwtSign(u), UserView(u))

\* router.post('/register')
Register(b) ==
    /\ app = "jwt"
    /\ LET answer == RegisterAnswer(users, b)
       IN  /\ login' = [op |-> "register", body |-> b, resp |-> answer]
           /\ users' = IF answer.status = 201
                       THEN users \cup {UserCreate(users, b)} ELSE users
    /\ UNCHANGED <<app, customers, nextId, now, createdBy, prev, req, resp>>
    /\ UNCHANGED <<inflight, clock, disk, exports, pdf>>

\* LoginAnswer that tells an unknown email from a wrong password.
LoginAnswerNamingTheFault(U, email, password) ==
    IF Falsy(email) \/ Falsy(password)
    THEN AuthResponse(400, "Email and password are required", << >>, << >>)
    ELSE IF findByEmail(U, email) = {}
    THEN AuthResponse(404, "User not found", << >>, << >>)
    ELSE LET user == CHOOSE u \in findByEmail(U, email) : TRUE
         IN  IF ~verifyPassword(password, user.password)
             THEN AuthResponse(401, "Invalid email or password", << >>, << >>)
             ELSE AuthResponse(200, "Login successful", JwtSign(user), UserView(user))

\* The response of router.post('/login') over users table U.
LoginAnswer(U, email, password) ==
    IF Falsy(email) \/ Falsy(password)
    THEN AuthResponse(400, "Email and password are required", << >>, << >>)
    ELSE IF findByEmail(U, email) = {}
    THEN AuthResponse(401, "Invalid email or password", << >>, << >>)
    ELSE LET user == CHOOSE u \in findByEmail(U, email) : TRUE
         IN  IF ~verifyPassword(password, user.password)
             THEN AuthResponse(401, "Invalid email or password", << >>, << >>)
             ELSE AuthResponse(200, "Login successful", JwtSign(user), UserView(user))

\* router.post('/login')
Login(b) ==
    /\ app = "jwt"
    /\ login' = [op |-> "login", body |-> b,
                 resp |-> LoginAnswer(users, b.email, b.password)]
    /\ UNCHANGED <<app, customers, nextId, now, createdBy, prev, req, resp>>
    /\ UNCHANGED <<inflight, clock, disk, exports, pdf, users>>

InitLogin == Init /\ app = "jwt"

NextLogin ==
    \/ \E b \in RegisterBodies : Register(b)
    \/ \E b \in LoginBodies : Login(b)

SpecLogin == InitLogin /\ [][NextLogin]_vars

(***************************************************************************)
(* C29.  Login gives the same response, status 401 with the error          *)
(* 'Invalid email or password' and no token, when no user has the given    *)
(* email as when the user exists but the password is wrong, so that the    *)
(* response does not reveal whether an email is registered; a token is     *)
(* issued only when the user exists and the password verifies.             *)
(***************************************************************************)
\* Some user has the email.
Registered(email) == \E u \in users : u.email = email

\* Some user has the email, and the password is that user's.
Verifies(email, password) ==
    \E u \in users : u.email = email /\ u.password = HashPassword(password)

C29_LoginDoesNotRevealEmail ==
    /\ login.op = "login" =>
           LET email == login.body.email
               password == login.body.password
           IN  /\ (~Falsy(email) /\ ~Falsy(password) /\ ~Verifies(email, password))
                      => login.resp = AuthResponse(401, "Invalid email or password",
                                                   << >>, << >>)
               /\ login.resp.token # << >>
                      => /\ Verifies(email, password)
                         /\ login.resp.status = 200
                         /\ \E u \in users : /\ u.email = email
                                             /\ login.resp.token = JwtSign(u)
    /\ \A a, b \in LoginBodies :
           (/\ ~Falsy(a.email) /\ ~Falsy(a.password) /\ ~Registered(a.email)
            /\ ~Falsy(b.password) /\ Registered(b.email)
            /\ ~Verifies(b.email, b.password))
               => LoginAnswer(users, a.email, a.password)
                      = LoginAnswer(users, b.email, b.password)

\* A login with the wrong password for a registered email has been refused,
\* while another email of the sample is not registered.
C29_Witness ==
    /\ login.op = "login"
    /\ Registered(login.body.email)
    /\ ~Falsy(login.body.password)
    /\ ~Verifies(login.body.email, login.body.password)
    /\ login.resp.status = 401
    /\ \E b \in LoginBodies : ~Falsy(b.email) /\ ~Registered(b.email)

====
